---- MODULE Spec2Model ----
(***************************************************************************)
(* A model of ppm (bin/ppm.js): the installPackage walker, the lock file   *)
(* prisma.lock, the tarball cache, the node_modules directory and the      *)
(* install / uninstall / update / upgrade commands.                        *)
(*                                                                         *)
(* JavaScript strings are sequences of one-character strings, so that      *)
(* split, startsWith, replace and path operations are computed, not        *)
(* assumed.  The value undefined is the one-element sequence Undef, whose   *)
(* element is no character; concatenating it gives what JS gives           *)
(* ("1" + "." + undefined + "." is "1.undefined.").                        *)
(***************************************************************************)
EXTENDS Integers, Sequences, FiniteSets, TLC

\* ------------------------------------------------------------------ bounds
\* Commands per behaviour.
MaxCmds == 2
\* Removals of a package directory by the user per behaviour.
MaxRemovals == 1
\* Injected failures (transport, stream, tar, lock write) per behaviour.
MaxFail == 1
\* Repeated installPackage calls on one session after the first returned.
MaxAgain == 1

\* ----------------------------------------------------------------- strings
Undef == <<"undefined">>
Truthy(s) == s # Undef /\ s # <<>>

At == <<"@">>
Dot == <<".">>
Latest == <<"l","a","t","e","s","t">>

RECURSIVE Split(_, _)
\* String.prototype.split with a one-character separator.
Split(s, sep) ==
  IF \A i \in 1..Len(s) : s[i] # sep
    THEN <<s>>
    ELSE LET i == CHOOSE k \in 1..Len(s) :
                    s[k] = sep /\ \A j \in 1..(k-1) : s[j] # sep
         IN <<SubSeq(s, 1, i-1)>> \o Split(SubSeq(s, i+1, Len(s)), sep)

\* Array element or undefined.
Elem(arr, i) == IF i <= Len(arr) THEN arr[i] ELSE Undef

StartsWith(s, prefix) ==
  Len(prefix) <= Len(s) /\ SubSeq(s, 1, Len(prefix)) = prefix

\* pkg.replace(/\//g, '__')
ReplaceSlash(s) ==
  LET RECURSIVE R(_)
      R(t) == IF t = <<>> THEN <<>>
              ELSE (IF Head(t) = "/" THEN <<"_","_">> ELSE <<Head(t)>>) \o R(Tail(t))
  IN R(s)

DigitVal ==
  "0" :> 0 @@ "1" :> 1 @@ "2" :> 2 @@ "3" :> 3 @@ "4" :> 4 @@
  "5" :> 5 @@ "6" :> 6 @@ "7" :> 7 @@ "8" :> 8 @@ "9" :> 9

RECURSIVE ToNum(_)
ToNum(s) == IF s = <<>> THEN 0
            ELSE ToNum(SubSeq(s, 1, Len(s)-1)) * 10 + DigitVal[s[Len(s)]]

RECURSIVE CompareParts(_, _)
\* -1, 0 or 1: the lists of numeric components, compared left to right; a
\* list that is a proper prefix of the other is the smaller one.
CompareParts(x, y) ==
  IF x = <<>> /\ y = <<>> THEN 0
  ELSE IF x = <<>> THEN -1
  ELSE IF y = <<>> THEN 1
  ELSE IF ToNum(Head(x)) < ToNum(Head(y)) THEN -1
  ELSE IF ToNum(Head(x)) > ToNum(Head(y)) THEN 1
  ELSE CompareParts(Tail(x), Tail(y))

\* a.localeCompare(b, undefined, { numeric: true }) on dotted numeric versions:
\* each run of digits is compared by its value.
localeCompareNumeric(a, b) == CompareParts(Split(a, "."), Split(b, "."))

\* ----------------------------------------------------- names and versions
A == <<"a">>
B == <<"b">>
C == <<"c">>
SP == <<"@","s","/","p">>
Z == <<"z">>

V100 == <<"1",".","0",".","0">>
V120 == <<"1",".","2",".","0">>
V200 == <<"2",".","0",".","0">>
V1000 == <<"1","0",".","0",".","0">>

Caret1 == <<"^","1">>
Caret3 == <<"^","3">>
Tilde10 == <<"~","1",".","0">>

Dep(n, r) == [name |-> n, range |-> r]
Ver(v, d) == [version |-> v, deps |-> d]

\* What the registry answers for https://registry.npmjs.org/<pkg>: the
\* dist-tags.latest and the versions in the order of the JSON object, each with
\* the dependencies of its package.json in their order.  z is not published.
Registry ==
  A :> [latest |-> V120,
        versions |-> << Ver(V100, <<>>),
                        Ver(V120, << Dep(B, Caret1), Dep(C, Latest) >>),
                        Ver(V1000, << Dep(Z, Latest), Dep(C, V100) >>) >>] @@
  B :> [latest |-> V120,
        versions |-> << Ver(V200, <<>>),
                        Ver(V120, << Dep(A, Caret1), Dep(C, Caret1) >>) >>] @@
  C :> [latest |-> V200,
        versions |-> << Ver(V100, << Dep(SP, V100) >>),
                        Ver(V200, <<>>) >>] @@
  SP :> [latest |-> V200,
         versions |-> << Ver(V100, <<>>), Ver(V200, <<>>) >>]

Names == {A, B, C, SP, Z}
Versions == {V100, V120, V200, V1000}

\* Object.keys(meta.versions)
VersionKeys(meta) == [i \in 1..Len(meta.versions) |-> meta.versions[i].version]

\* meta.versions[version].dependencies as read back from the extracted
\* package.json of that version.
DepsOf(pkg, version) ==
  LET vs == Registry[pkg].versions
      i == CHOOSE k \in 1..Len(vs) : vs[k].version = version
  IN vs[i].deps

\* ------------------------------------------------------------ pure helpers
\* const [pkg, range] = pkgSpec.split('@') and the scoped-name branch.
ParseSpec(pkgSpec) ==
  LET parts == Split(pkgSpec, "@")
      pkg0 == Elem(parts, 1)
      range0 == Elem(parts, 2)
  IN IF pkg0 = <<>> /\ Truthy(range0)
       THEN [pkg |-> At \o range0, range |-> Undef]
       ELSE [pkg |-> pkg0, range |-> range0]

\* dep + '@' + deps[dep]
MakeSpec(name, range) == name \o At \o range

\* semverSatisfies with the caret test on the bare major, without the dot:
\* a resolver that takes 10.0.0 for ^1.
semverSatisfiesLoose(version, range) ==
  IF ~Truthy(range) \/ range = Latest THEN TRUE
  ELSE IF StartsWith(range, <<"^">>) THEN
    LET major == Elem(Split(Tail(range), "."), 1)
    IN StartsWith(version, major)
  ELSE IF StartsWith(range, <<"~">>) THEN
    LET parts == Split(Tail(range), ".")
        major == Elem(parts, 1)
        minor == Elem(parts, 2)
    IN StartsWith(version, major \o Dot \o minor \o Dot)
  ELSE version = range

semverSatisfies(version, range) ==
  IF ~Truthy(range) \/ range = Latest THEN TRUE
  ELSE IF StartsWith(range, <<"^">>) THEN
    LET major == Elem(Split(Tail(range), "."), 1)
    IN StartsWith(version, major \o Dot)
  ELSE IF StartsWith(range, <<"~">>) THEN
    LET parts == Split(Tail(range), ".")
        major == Elem(parts, 1)
        minor == Elem(parts, 2)
    IN StartsWith(version, major \o Dot \o minor \o Dot)
  ELSE version = range

RECURSIVE InsertDesc(_, _)
InsertDesc(v, sorted) ==
  IF sorted = <<>> THEN <<v>>
  ELSE IF localeCompareNumeric(Head(sorted), v) >= 0
    THEN <<Head(sorted)>> \o InsertDesc(v, Tail(sorted))
    ELSE <<v>> \o sorted

RECURSIVE SortDesc(_)
\* keys.sort((a, b) => b.localeCompare(a, undefined, { numeric: true })), stable.
SortDesc(keys) ==
  IF keys = <<>> THEN <<>>
  ELSE InsertDesc(keys[Len(keys)], SortDesc(SubSeq(keys, 1, Len(keys)-1)))

\* allVersions.find(pred): the first element satisfying it, or undefined.
FindSat(vs, range) ==
  IF \E i \in 1..Len(vs) : semverSatisfies(vs[i], range)
    THEN vs[CHOOSE i \in 1..Len(vs) :
              semverSatisfies(vs[i], range)
              /\ \A j \in 1..(i-1) : ~semverSatisfies(vs[j], range)]
    ELSE Undef

\* The version resolution of installPackage: dist-tags.latest, or the first
\* satisfying version of the descending order; Undef when none satisfies.
ResolveVersion(meta, range) ==
  IF Truthy(range) /\ range # Latest
    THEN FindSat(SortDesc(VersionKeys(meta)), range)
    ELSE meta.latest

\* --------------------------------------------------------------- lock object
\* lock.dependencies: a JS object, i.e. name -> version in insertion order.
Entry(n, v) == [name |-> n, version |-> v]

LockKeys(deps) == {deps[i].name : i \in 1..Len(deps)}

\* A lock that never answers that it has an entry.
LockHasNever(deps, n) == FALSE

\* lock.dependencies[pkg] is truthy
LockHas(deps, n) == \E i \in 1..Len(deps) : deps[i].name = n

LockGet(deps, n) ==
  IF LockHas(deps, n)
    THEN deps[CHOOSE i \in 1..Len(deps) : deps[i].name = n].version
    ELSE Undef

\* An assignment that replaces the whole object by the one new entry.
LockSetOnly(deps, n, v) == <<Entry(n, v)>>

\* lock.dependencies[pkg] = version
LockSet(deps, n, v) ==
  IF LockHas(deps, n)
    THEN [i \in 1..Len(deps) |-> IF deps[i].name = n THEN Entry(n, v) ELSE deps[i]]
    ELSE Append(deps, Entry(n, v))

\* delete lock.dependencies[pkg]
LockDelete(deps, n) == SelectSeq(deps, LAMBDA e : e.name # n)

\* ------------------------------------------------------------- file system
\* node_modules is a function from the paths of its directories (relative to
\* node_modules, <<>> being node_modules itself) to what was extracted there:
\* the versions whose files are present (tar.x merges into an existing
\* directory) and the version of the package.json last written.
EmptyDir == [files |-> {}, manifest |-> Undef]

existsSync(fs, path) == path \in DOMAIN fs

\* path.dirname relative to node_modules
Dirname(path) ==
  LET parts == Split(path, "/")
  IN IF Len(parts) <= 1 THEN <<>>
     ELSE SubSeq(path, 1, Len(path) - Len(parts[Len(parts)]) - 1)

Under(dir, q) == q = dir \/ dir = <<>> \/ StartsWith(q, dir \o <<"/">>)

\* fs.mkdirSync(path) without { recursive: true }: the parent must exist.
CanMkdir(fs, path) == existsSync(fs, Dirname(path))

mkdirSync(fs, path) == [q \in DOMAIN fs \cup {path} |->
                          IF q \in DOMAIN fs THEN fs[q] ELSE EmptyDir]

\* fs.rmSync(path, { recursive: true, force: true })
rmSync(fs, path) == [q \in {d \in DOMAIN fs : ~Under(path, d)} |-> fs[q]]

\* fs.readdirSync(nodeModules): the names of its direct entries.
readdirSync(fs) == {Elem(Split(q, "/"), 1) : q \in DOMAIN fs \ {<<>>}}

\* tar.x({ cwd: pkgPath, strip: 1 }) of the archive of a version.
Extracted(fs, path, version) ==
  [fs EXCEPT ![path] = [files |-> @.files \cup {version}, manifest |-> version]]

\* path.join(cacheDir, `${safePkg}-${version}.tgz`), relative to cacheDir.
TarballPath(pkg, version) ==
  ReplaceSlash(pkg) \o <<"-">> \o version \o <<".","t","g","z">>

\* --------------------------------------------------------------- the state
\* lockFile     prisma.lock on disk: whether it exists and its dependencies
\* nodeModules  the node_modules tree (see above)
\* cache        the cache directory: tarball path -> the archive stored and
\*              whether the write of it finished
\* cacheDir     whether ppm.json sets customSettings.cacheDirectory
\* proc         per process: the command, its in-memory lock and installedSet,
\*              the stack of installPackage calls, and what it did so far
\* cmds, fails  how many commands were started, how many failures injected
\* userRemoved  the package directories the user removed, in order
VARIABLES lockFile, nodeModules, cache, cacheDir, proc, cmds, fails, userRemoved

vars == <<lockFile, nodeModules, cache, cacheDir, proc, cmds, fails, userRemoved>>
disk == <<lockFile, nodeModules, cache>>

ProcIds == {1, 2}

\* A line of what a process did: a call, a request, a report.
Ev(k, n, v, d) == [kind |-> k, pkg |-> n, ver |-> v, depth |-> d]

Frame(spec, depth) ==
  [spec |-> spec, pkg |-> Undef, range |-> Undef, version |-> Undef,
   phase |-> "enter", direct |-> FALSE, deps |-> <<>>, idx |-> 1, depth |-> depth]

Idle ==
  [pc |-> "idle", op |-> "none", arg |-> <<>>, lock |-> <<>>, installedSet |-> {},
   stack |-> <<>>, todo |-> <<>>, exitCode |-> 0, log |-> <<>>, lockS |-> <<>>,
   again |-> 0]

\* The specifiers given on the command line.
TopSpecs ==
  { MakeSpec(A, Latest), MakeSpec(A, Tilde10), MakeSpec(A, V1000),
    MakeSpec(A, Caret3), B, MakeSpec(C, Caret1), MakeSpec(SP, V100), Z }

\* A project before the first command: no lock file, no node_modules unless
\* another tool left the scope directory node_modules/@s, an empty cache.
Init ==
  /\ lockFile = [exists |-> FALSE, deps |-> <<>>]
  /\ nodeModules \in { [q \in {} |-> EmptyDir],
                       [q \in {<<>>, <<"@","s">>} |-> EmptyDir] }
  /\ cache = [q \in {} |-> [pkg |-> Undef, version |-> Undef, complete |-> FALSE]]
  /\ cacheDir \in BOOLEAN
  /\ proc = [p \in ProcIds |-> Idle]
  /\ cmds = 0
  /\ fails = 0
  /\ userRemoved = <<>>

\* let lock = { dependencies: {} };
\* if (fs.existsSync(lockFile)) lock = JSON.parse(fs.readFileSync(lockFile));
LoadLock == IF lockFile.exists THEN lockFile.deps ELSE <<>>

\* A write that patches the file with the newest entry alone.
WriteLockLast(deps) ==
  [exists |-> TRUE, deps |-> IF deps = <<>> THEN <<>> ELSE <<deps[Len(deps)]>>]

\* fs.writeFileSync(lockFile, JSON.stringify(lock, null, 2))
WriteLock(deps) == [exists |-> TRUE, deps |-> deps]

Top(p) == Head(proc[p].stack)
Running(p) == proc[p].pc = "run" /\ proc[p].stack # <<>>
AtRest(p) == proc[p].pc = "run" /\ proc[p].stack = <<>>
CanFail == fails < MaxFail

\* A return that unwinds the whole stack, as a thrown error that no call
\* catches would.
ReturnUnwinds(p, evs) ==
  [proc[p] EXCEPT !.stack = <<>>, !.log = @ \o evs]

\* The current call returns: its frame is popped, evs are appended to the log.
Return(p, evs) ==
  [proc[p] EXCEPT !.stack = Tail(@), !.log = @ \o evs]

\* The current call moves on: its frame becomes f, evs are appended to the log.
Continue(p, f, evs) ==
  [proc[p] EXCEPT !.stack = <<f>> \o Tail(@), !.log = @ \o evs]

\* ------------------------------------------------------------ installPackage
\* The begin of a call that checks the locked version against the range and
\* installs again when the range does not admit it.
IP_EnterRevalidates(p) ==
  /\ Running(p) /\ Top(p).phase = "enter"
  /\ LET f == Top(p)
         parsed == ParseSpec(f.spec)
         pkg == parsed.pkg
         call == Ev("call", pkg, parsed.range, f.depth)
     IN proc' = [proc EXCEPT ![p] =
          IF LockHas(proc[p].lock, pkg)
             /\ semverSatisfies(LockGet(proc[p].lock, pkg), parsed.range)
            THEN [Return(p, IF pkg \in proc[p].installedSet
                              THEN <<call, Ev("skip", pkg, Undef, f.depth)>>
                              ELSE <<call, Ev("already", pkg, LockGet(proc[p].lock, pkg), f.depth)>>)
                    EXCEPT !.installedSet = @ \cup {pkg}]
            ELSE Continue(p, [f EXCEPT !.pkg = pkg, !.range = parsed.range,
                                       !.phase = "meta"],
                          <<call, Ev("fetch", pkg, Undef, f.depth)>>)]
  /\ UNCHANGED <<disk, cacheDir, cmds, fails, userRemoved>>

\* The call begins: the specifier is parsed, and an entry of the in-memory lock
\* for the name ends the call at once (marking the session, and printing
\* "Already installed" when the session did not have the name); otherwise the
\* request for the registry metadata is sent.
IP_Enter(p) ==
  /\ Running(p) /\ Top(p).phase = "enter"
  /\ LET f == Top(p)
         parsed == ParseSpec(f.spec)
         pkg == parsed.pkg
         call == Ev("call", pkg, parsed.range, f.depth)
     IN proc' = [proc EXCEPT ![p] =
          IF LockHas(proc[p].lock, pkg)
            THEN [Return(p, IF pkg \in proc[p].installedSet
                              THEN <<call, Ev("skip", pkg, Undef, f.depth)>>
                              ELSE <<call, Ev("already", pkg, LockGet(proc[p].lock, pkg), f.depth)>>)
                    EXCEPT !.installedSet = @ \cup {pkg}]
            ELSE Continue(p, [f EXCEPT !.pkg = pkg, !.range = parsed.range,
                                       !.phase = "meta"],
                          <<call, Ev("fetch", pkg, Undef, f.depth)>>)]
  /\ UNCHANGED <<disk, cacheDir, cmds, fails, userRemoved>>

\* What the answer of the registry leads to, when it arrives and is ok: the
\* version is resolved; with none satisfying the range the call reports and
\* returns; a tarball of the cache is used when caching is on and the file
\* exists; otherwise the download request is sent.
AfterMeta(p) ==
  LET f == Top(p)
      version == ResolveVersion(Registry[f.pkg], f.range)
  IN IF version = Undef
       THEN Return(p, <<Ev("noversion", f.pkg, f.range, f.depth)>>)
     ELSE IF cacheDir /\ TarballPath(f.pkg, version) \in DOMAIN cache
       THEN Continue(p, [f EXCEPT !.version = version, !.phase = "extract"], <<>>)
     ELSE Continue(p, [f EXCEPT !.version = version, !.phase = "download"],
                   <<Ev("download", f.pkg, version, f.depth)>>)

\* The registry answers the metadata request: not ok for a name it does not
\* have, ok otherwise.
IP_Meta(p) ==
  /\ Running(p) /\ Top(p).phase = "meta"
  /\ proc' = [proc EXCEPT ![p] =
       IF Top(p).pkg \notin DOMAIN Registry
         THEN Return(p, <<Ev("notfound", Top(p).pkg, Undef, Top(p).depth)>>)
         ELSE AfterMeta(p)]
  /\ UNCHANGED <<disk, cacheDir, cmds, fails, userRemoved>>

\* The registry cannot be reached: fetch rejects and the catch reports.
IP_MetaThrows(p) ==
  /\ Running(p) /\ Top(p).phase = "meta"
  /\ CanFail
  /\ fails' = fails + 1
  /\ proc' = [proc EXCEPT ![p] = Return(p, <<Ev("failed", Top(p).pkg, Undef, Top(p).depth)>>)]
  /\ UNCHANGED <<disk, cacheDir, cmds, userRemoved>>

\* The tarball answer is ok: with a cache directory the body goes to the cache
\* file, without one straight into the extraction.
IP_Download(p) ==
  /\ Running(p) /\ Top(p).phase = "download"
  /\ proc' = [proc EXCEPT ![p] =
       Continue(p, [Top(p) EXCEPT !.phase = IF cacheDir THEN "store" ELSE "extract",
                                  !.direct = ~cacheDir], <<>>)]
  /\ UNCHANGED <<disk, cacheDir, cmds, fails, userRemoved>>

\* The tarball answer is not ok: the call reports and returns.
IP_DownloadNotOk(p) ==
  /\ Running(p) /\ Top(p).phase = "download"
  /\ CanFail
  /\ fails' = fails + 1
  /\ proc' = [proc EXCEPT ![p] =
       Return(p, <<Ev("dlfail", Top(p).pkg, Top(p).version, Top(p).depth)>>)]
  /\ UNCHANGED <<disk, cacheDir, cmds, userRemoved>>

\* A cache path that takes the stored archive for installed: it goes on to
\* the lock without extracting.
IP_StoreOnly(p) ==
  /\ Running(p) /\ Top(p).phase = "store"
  /\ LET f == Top(p)
         file == TarballPath(f.pkg, f.version)
     IN /\ cache' = (file :> [pkg |-> f.pkg, version |-> f.version, complete |-> TRUE])
                     @@ cache
        /\ proc' = [proc EXCEPT ![p] = Continue(p, [f EXCEPT !.phase = "record"], <<>>)]
  /\ UNCHANGED <<lockFile, nodeModules, cacheDir, cmds, fails, userRemoved>>

\* The body is written to the cache file and the stream finishes.
IP_Store(p) ==
  /\ Running(p) /\ Top(p).phase = "store"
  /\ LET f == Top(p)
         file == TarballPath(f.pkg, f.version)
     IN /\ cache' = (file :> [pkg |-> f.pkg, version |-> f.version, complete |-> TRUE])
                     @@ cache
        /\ proc' = [proc EXCEPT ![p] = Continue(p, [f EXCEPT !.phase = "extract"], <<>>)]
  /\ UNCHANGED <<lockFile, nodeModules, cacheDir, cmds, fails, userRemoved>>

\* The stream into the cache file fails: the promise rejects, the catch
\* reports, and the file stays as far as it was written.
IP_StoreFails(p) ==
  /\ Running(p) /\ Top(p).phase = "store"
  /\ CanFail
  /\ fails' = fails + 1
  /\ LET f == Top(p)
         file == TarballPath(f.pkg, f.version)
     IN /\ cache' = (file :> [pkg |-> f.pkg, version |-> f.version, complete |-> FALSE])
                     @@ cache
        /\ proc' = [proc EXCEPT ![p] = Return(p, <<Ev("failed", f.pkg, f.version, f.depth)>>)]
  /\ UNCHANGED <<lockFile, nodeModules, cacheDir, cmds, userRemoved>>

\* node_modules after the two guarded mkdirSync calls, when the second can be
\* made; node_modules itself is always created.
WithNodeModules(fs) == IF existsSync(fs, <<>>) THEN fs ELSE mkdirSync(fs, <<>>)

WithPkgPath(fs, pkg) == IF existsSync(fs, pkg) THEN fs ELSE mkdirSync(fs, pkg)

\* The archive the extraction reads is whole: the stream of the download, or a
\* cache file whose write finished.
ArchiveWhole(f) ==
  IF f.direct THEN TRUE ELSE cache[TarballPath(f.pkg, f.version)].complete

\* The extraction can be made: the package directory exists or its parent does
\* (mkdirSync is not recursive), and the archive is whole.
CanExtract(fs, f) ==
  /\ existsSync(fs, f.pkg) \/ CanMkdir(fs, f.pkg)
  /\ ArchiveWhole(f)

\* The directories are made and tar.x extracts the archive into the package
\* directory.
IP_Extract(p) ==
  /\ Running(p) /\ Top(p).phase = "extract"
  /\ LET f == Top(p)
         fs == WithNodeModules(nodeModules)
     IN /\ CanExtract(fs, f)
        /\ nodeModules' = Extracted(WithPkgPath(fs, f.pkg), f.pkg, f.version)
        /\ proc' = [proc EXCEPT ![p] =
             Continue(p, [f EXCEPT !.phase = "record"],
                      <<Ev("extract", f.pkg, f.version, f.depth)>>)]
  /\ UNCHANGED <<lockFile, cache, cacheDir, cmds, fails, userRemoved>>

\* mkdirSync throws for a missing parent, or tar.x rejects for a truncated
\* archive: the catch reports; the directories made so far stay.
IP_ExtractThrows(p) ==
  /\ Running(p) /\ Top(p).phase = "extract"
  /\ LET f == Top(p)
         fs == WithNodeModules(nodeModules)
     IN /\ ~CanExtract(fs, f)
        /\ nodeModules' = IF existsSync(fs, f.pkg) \/ CanMkdir(fs, f.pkg)
                            THEN WithPkgPath(fs, f.pkg) ELSE fs
        /\ proc' = [proc EXCEPT ![p] = Return(p, <<Ev("failed", f.pkg, f.version, f.depth)>>)]
  /\ UNCHANGED <<lockFile, cache, cacheDir, cmds, fails, userRemoved>>

\* tar.x rejects although the directories could be made (a write error).
IP_ExtractFails(p) ==
  /\ Running(p) /\ Top(p).phase = "extract"
  /\ CanFail
  /\ LET f == Top(p)
         fs == WithNodeModules(nodeModules)
     IN /\ CanExtract(fs, f)
        /\ fails' = fails + 1
        /\ nodeModules' = WithPkgPath(fs, f.pkg)
        /\ proc' = [proc EXCEPT ![p] = Return(p, <<Ev("failed", f.pkg, f.version, f.depth)>>)]
  /\ UNCHANGED <<lockFile, cache, cacheDir, cmds, userRemoved>>

\* The dependencies of the package.json in the package directory, if there
\* is one.
ReadDeps(fs, pkg) ==
  IF existsSync(fs, pkg) /\ fs[pkg].manifest # Undef
    THEN DepsOf(pkg, fs[pkg].manifest)
    ELSE <<>>

\* The step after the extraction without its bookkeeping: no entry is set in
\* the lock and the name does not join the session.
IP_RecordForgets(p) ==
  /\ Running(p) /\ Top(p).phase = "record"
  /\ LET f == Top(p)
     IN /\ lockFile' = WriteLock(proc[p].lock)
        /\ proc' = [proc EXCEPT ![p] =
             Continue(p, [f EXCEPT !.phase = "deps", !.idx = 1,
                                   !.deps = ReadDeps(nodeModules, f.pkg)],
                      <<Ev("lockwrite", f.pkg, f.version, f.depth)>>)]
  /\ UNCHANGED <<nodeModules, cache, cacheDir, cmds, fails, userRemoved>>

\* After the extraction: the entry is set in the lock, the lock is written to
\* prisma.lock, the name joins the session and the package.json is read.
IP_Record(p) ==
  /\ Running(p) /\ Top(p).phase = "record"
  /\ LET f == Top(p)
         lock == LockSet(proc[p].lock, f.pkg, f.version)
     IN /\ lockFile' = WriteLock(lock)
        /\ proc' = [proc EXCEPT ![p] =
             [Continue(p, [f EXCEPT !.phase = "deps", !.idx = 1,
                                    !.deps = ReadDeps(nodeModules, f.pkg)],
                       <<Ev("lockwrite", f.pkg, f.version, f.depth)>>)
                EXCEPT !.lock = lock, !.installedSet = @ \cup {f.pkg}]]
  /\ UNCHANGED <<nodeModules, cache, cacheDir, cmds, fails, userRemoved>>

\* writeFileSync of prisma.lock throws: the entry is in the in-memory lock
\* only, the name does not join the session, the catch reports.
IP_RecordFails(p) ==
  /\ Running(p) /\ Top(p).phase = "record"
  /\ CanFail
  /\ fails' = fails + 1
  /\ LET f == Top(p)
     IN proc' = [proc EXCEPT ![p] =
          [Return(p, <<Ev("failed", f.pkg, f.version, f.depth)>>)
             EXCEPT !.lock = LockSet(@, f.pkg, f.version)]]
  /\ UNCHANGED <<disk, cacheDir, cmds, userRemoved>>

RECURSIVE DepFrames(_, _)
\* A frame for every dependency of the list.
DepFrames(deps, depth) ==
  IF deps = <<>> THEN <<>>
  ELSE <<Frame(MakeSpec(Head(deps).name, Head(deps).range), depth)>>
         \o DepFrames(Tail(deps), depth)

\* A loop that starts the calls for all dependencies at once instead of
\* awaiting one after the other.
IP_DepsAllAtOnce(p) ==
  /\ Running(p) /\ Top(p).phase = "deps"
  /\ LET f == Top(p)
     IN proc' = [proc EXCEPT ![p] =
          IF f.idx <= Len(f.deps)
            THEN [proc[p] EXCEPT !.stack =
                    DepFrames(SubSeq(f.deps, f.idx, Len(f.deps)), f.depth + 1)
                      \o <<[f EXCEPT !.idx = Len(f.deps) + 1]>> \o Tail(@)]
            ELSE Return(p, IF f.depth = 0
                             THEN <<Ev("installed", f.pkg, f.version, f.depth)>>
                             ELSE <<>>)]
  /\ UNCHANGED <<disk, cacheDir, cmds, fails, userRemoved>>

\* One turn of the loop over the dependencies: a dependency the session does
\* not have is installed by a nested call; after the last one the call
\* returns, with the summary when it is the top-level call.
IP_Deps(p) ==
  /\ Running(p) /\ Top(p).phase = "deps"
  /\ LET f == Top(p)
     IN proc' = [proc EXCEPT ![p] =
          IF f.idx <= Len(f.deps)
            THEN LET dep == f.deps[f.idx]
                     g == [f EXCEPT !.idx = @ + 1]
                 IN IF dep.name \in proc[p].installedSet
                      THEN Continue(p, g, <<>>)
                      ELSE [proc[p] EXCEPT !.stack =
                              <<Frame(MakeSpec(dep.name, dep.range), f.depth + 1), g>>
                              \o Tail(@)]
            ELSE Return(p, IF f.depth = 0
                             THEN <<Ev("installed", f.pkg, f.version, f.depth)>>
                             ELSE <<>>)]
  /\ UNCHANGED <<disk, cacheDir, cmds, fails, userRemoved>>

installPackage(p) ==
  \/ IP_Enter(p)
  \/ IP_Meta(p)
  \/ IP_MetaThrows(p)
  \/ IP_Download(p)
  \/ IP_DownloadNotOk(p)
  \/ IP_Store(p)
  \/ IP_StoreFails(p)
  \/ IP_Extract(p)
  \/ IP_ExtractThrows(p)
  \/ IP_ExtractFails(p)
  \/ IP_Record(p)
  \/ IP_RecordFails(p)
  \/ IP_Deps(p)

\* ---------------------------------------------------------------- commands
Start(p, op, arg) ==
  [Idle EXCEPT !.pc = "run", !.op = op, !.arg = arg, !.lock = LoadLock,
               !.lockS = LoadLock]

\* The process ends with the exit code; evs are its last lines.
Finish(r, code, evs) ==
  [r EXCEPT !.pc = "exit", !.exitCode = code, !.log = @ \o evs, !.stack = <<>>,
            !.todo = <<>>]

CanStart(p) == proc[p].pc = "idle" /\ cmds < MaxCmds

\* ppm install <package>
CmdInstall(p) ==
  /\ CanStart(p)
  /\ \E spec \in TopSpecs :
       proc' = [proc EXCEPT ![p] =
         [Start(p, "install", spec) EXCEPT !.stack = <<Frame(spec, 0)>>]]
  /\ cmds' = cmds + 1
  /\ UNCHANGED <<disk, cacheDir, fails, userRemoved>>

\* The action of install <package> is over; the process exits when nothing
\* is pending, with the default code.
InstallDone(p) ==
  /\ AtRest(p) /\ proc[p].op = "install"
  /\ proc' = [proc EXCEPT ![p] = Finish(proc[p], 0, <<>>)]
  /\ UNCHANGED <<disk, cacheDir, cmds, fails, userRemoved>>

\* A caller that holds the lock and the installedSet of a session calls
\* installPackage on them again for a name the session has, as the loop of
\* install without argument calls it for one lock entry after the other.
InstallAgain(p) ==
  /\ AtRest(p) /\ proc[p].op = "install"
  /\ proc[p].again < MaxAgain
  /\ \E spec \in TopSpecs :
       /\ ParseSpec(spec).pkg \in proc[p].installedSet
       /\ proc' = [proc EXCEPT ![p] =
         [proc[p] EXCEPT !.stack = <<Frame(spec, 0)>>, !.again = @ + 1,
                         !.log = Append(@, Ev("again", ParseSpec(spec).pkg, Undef, 0))]]
  /\ UNCHANGED <<disk, cacheDir, cmds, fails, userRemoved>>

\* Object.entries(lock.dependencies) as the specifiers dep + '@' + version
LockSpecs(deps) == [i \in 1..Len(deps) |-> MakeSpec(deps[i].name, deps[i].version)]

\* ppm install
CmdInstallAll(p) ==
  /\ CanStart(p)
  /\ LET r == Start(p, "installAll", <<>>)
     IN proc' = [proc EXCEPT ![p] =
          IF r.lock = <<>>
            THEN Finish(r, 0, <<Ev("nopackages", Undef, Undef, 0)>>)
            ELSE [r EXCEPT !.todo = LockSpecs(r.lock)]]
  /\ cmds' = cmds + 1
  /\ UNCHANGED <<disk, cacheDir, fails, userRemoved>>

\* The loop over the lock entries: the next call, or the last line.
InstallAllNext(p) ==
  /\ AtRest(p) /\ proc[p].op = "installAll"
  /\ proc' = [proc EXCEPT ![p] =
       IF proc[p].todo # <<>>
         THEN [proc[p] EXCEPT !.stack = <<Frame(Head(proc[p].todo), 0)>>,
                              !.todo = Tail(@)]
         ELSE Finish(proc[p], 0, <<Ev("allinstalled", Undef, Undef, 0)>>)]
  /\ UNCHANGED <<disk, cacheDir, cmds, fails, userRemoved>>

\* node_modules after the pruning loop of uninstall: every entry of
\* node_modules that is no key of the lock is removed.
Pruned(fs, deps) ==
  LET gone == {d \in readdirSync(fs) : d \notin LockKeys(deps)}
  IN [q \in {x \in DOMAIN fs : \A d \in gone : ~(Under(d, x))} |-> fs[q]]

\* ppm uninstall <package>: the handler is synchronous.
CmdUninstall(p) ==
  /\ CanStart(p)
  /\ \E pkg \in Names :
       LET removed == existsSync(nodeModules, pkg)
           fs1 == IF removed THEN rmSync(nodeModules, pkg) ELSE nodeModules
           lock == IF lockFile.exists THEN LockDelete(lockFile.deps, pkg) ELSE <<>>
           fs2 == IF existsSync(fs1, <<>>) THEN Pruned(fs1, lock) ELSE fs1
       IN /\ nodeModules' = fs2
          /\ lockFile' = IF lockFile.exists THEN WriteLock(lock) ELSE lockFile
          /\ proc' = [proc EXCEPT ![p] =
               Finish([Start(p, "uninstall", pkg) EXCEPT !.lock = lock], 0,
                      <<Ev(IF removed THEN "uninstalled" ELSE "notinstalled", pkg, Undef, 0)>>)]
  /\ cmds' = cmds + 1
  /\ UNCHANGED <<cache, cacheDir, fails, userRemoved>>

\* "Remove old version from lock and node_modules" of update and upgrade:
\* the directory is removed if it exists, the entry deleted, the lock written.
RemoveOld(p, r, pkg) ==
  /\ nodeModules' = IF existsSync(nodeModules, pkg)
                      THEN rmSync(nodeModules, pkg) ELSE nodeModules
  /\ lockFile' = WriteLock(LockDelete(r.lock, pkg))
  /\ proc' = [proc EXCEPT ![p] =
       [r EXCEPT !.lock = LockDelete(@, pkg), !.lockS = LockDelete(r.lock, pkg),
                 !.installedSet = {}, !.stack = <<Frame(pkg, 0)>>,
                 !.log = Append(@, Ev("session", pkg, Undef, 0))]]

\* ppm update <package>
CmdUpdate(p) ==
  /\ CanStart(p)
  /\ \E pkg \in Names :
       LET r == Start(p, "update", pkg)
       IN IF LockHas(r.lock, pkg)
            THEN RemoveOld(p, r, pkg)
            ELSE /\ proc' = [proc EXCEPT ![p] =
                      [r EXCEPT !.stack = <<Frame(pkg, 0)>>,
                                !.log = <<Ev("session", pkg, Undef, 0)>>]]
                 /\ UNCHANGED <<lockFile, nodeModules>>
  /\ cmds' = cmds + 1
  /\ UNCHANGED <<cache, cacheDir, fails, userRemoved>>

\* installPackage returned to update: "Updated <pkg> to latest version.",
\* process.exit(0).
UpdateDone(p) ==
  /\ AtRest(p) /\ proc[p].op = "update"
  /\ proc' = [proc EXCEPT ![p] =
       Finish(proc[p], 0, <<Ev("updated", proc[p].arg, Undef, 0)>>)]
  /\ UNCHANGED <<disk, cacheDir, cmds, fails, userRemoved>>

\* The write of prisma.lock in update or upgrade throws after the directory
\* was removed: the catch of the command reports and exits with 1.
RemoveOldFails(p) ==
  /\ CanFail
  /\ \/ /\ CanStart(p)
        /\ \E pkg \in Names :
             /\ LockHas(LoadLock, pkg)
             /\ nodeModules' = IF existsSync(nodeModules, pkg)
                                 THEN rmSync(nodeModules, pkg) ELSE nodeModules
             /\ proc' = [proc EXCEPT ![p] =
                  Finish([Start(p, "update", pkg) EXCEPT !.lock = LockDelete(@, pkg)],
                         1, <<Ev("cmdfailed", pkg, Undef, 0)>>)]
        /\ cmds' = cmds + 1
     \/ /\ AtRest(p) /\ proc[p].op = "upgrade" /\ proc[p].todo # <<>>
        /\ LET pkg == Head(proc[p].todo)
           IN /\ nodeModules' = IF existsSync(nodeModules, pkg)
                                  THEN rmSync(nodeModules, pkg) ELSE nodeModules
              /\ proc' = [proc EXCEPT ![p] =
                   Finish([proc[p] EXCEPT !.lock = LockDelete(@, pkg),
                                          !.installedSet = {}],
                          1, <<Ev("cmdfailed", pkg, Undef, 0)>>)]
        /\ cmds' = cmds
  /\ fails' = fails + 1
  /\ UNCHANGED <<lockFile, cache, cacheDir, userRemoved>>

\* Object.keys(lock.dependencies)
KeySeq(deps) == [i \in 1..Len(deps) |-> deps[i].name]

\* ppm upgrade
CmdUpgrade(p) ==
  /\ CanStart(p)
  /\ LET r == Start(p, "upgrade", <<>>)
     IN proc' = [proc EXCEPT ![p] =
          IF r.lock = <<>>
            THEN Finish(r, 0, <<Ev("nopackages", Undef, Undef, 0)>>)
            ELSE [r EXCEPT !.todo = KeySeq(r.lock)]]
  /\ cmds' = cmds + 1
  /\ UNCHANGED <<disk, cacheDir, fails, userRemoved>>

\* The loop of upgrade: the next package is removed and installed again in a
\* session of its own; after the last one the command reports and exits.
UpgradeNext(p) ==
  /\ AtRest(p) /\ proc[p].op = "upgrade"
  /\ IF proc[p].todo # <<>>
       THEN RemoveOld(p, [proc[p] EXCEPT !.todo = Tail(@)], Head(proc[p].todo))
       ELSE /\ proc' = [proc EXCEPT ![p] =
                 Finish(proc[p], 0, <<Ev("upgraded", Undef, Undef, 0)>>)]
            /\ UNCHANGED <<lockFile, nodeModules>>
  /\ UNCHANGED <<cache, cacheDir, cmds, fails, userRemoved>>

\* The process is gone; the next command starts from the disk alone.
Exit(p) ==
  /\ proc[p].pc = "exit"
  /\ proc' = [proc EXCEPT ![p] = Idle]
  /\ UNCHANGED <<disk, cacheDir, cmds, fails, userRemoved>>

\* The user removes the directory of a package between two commands.
UserRemovesDir ==
  /\ \A p \in ProcIds : proc[p].pc = "idle"
  /\ Len(userRemoved) < MaxRemovals
  /\ \E pkg \in Names :
       /\ existsSync(nodeModules, pkg)
       /\ nodeModules' = rmSync(nodeModules, pkg)
       /\ userRemoved' = Append(userRemoved, pkg)
  /\ UNCHANGED <<lockFile, cache, cacheDir, proc, cmds, fails>>

Command(p) ==
  \/ CmdInstall(p)
  \/ InstallDone(p)
  \/ InstallAgain(p)
  \/ CmdInstallAll(p)
  \/ InstallAllNext(p)
  \/ CmdUninstall(p)
  \/ CmdUpdate(p)
  \/ UpdateDone(p)
  \/ RemoveOldFails(p)
  \/ CmdUpgrade(p)
  \/ UpgradeNext(p)
  \/ Exit(p)

\* One process at a time: a command runs to its end before the next starts.
Next ==
  \/ installPackage(1)
  \/ Command(1)
  \/ UserRemovesDir

Spec == Init /\ [][Next]_vars

\* A project in which 'ppm install @s/p' has run before, in a directory that
\* had node_modules/@s: the state that command leaves on the disk, with or
\* without a cache directory.
InitInstalled ==
  /\ lockFile = WriteLock(<<Entry(SP, V200)>>)
  /\ nodeModules = Extracted([q \in {<<>>, <<"@","s">>, SP} |-> EmptyDir], SP, V200)
  /\ cacheDir \in BOOLEAN
  /\ cache = IF cacheDir
               THEN (TarballPath(SP, V200) :>
                       [pkg |-> SP, version |-> V200, complete |-> TRUE])
               ELSE [q \in {} |-> [pkg |-> Undef, version |-> Undef, complete |-> FALSE]]
  /\ proc = [p \in ProcIds |-> Idle]
  /\ cmds = 0
  /\ fails = 0
  /\ userRemoved = <<>>

\* The commands on a project that has a package installed.
SpecInstalled == InitInstalled /\ [][Next]_vars

\* Two ppm processes in the same project directory, each running one install
\* command; their steps interleave at the awaited calls.  The network and the
\* disk answer without errors here.
Concurrent(p) ==
  \/ CmdInstall(p)
  \/ IP_Enter(p)
  \/ IP_Meta(p)
  \/ IP_Download(p)
  \/ IP_Store(p)
  \/ IP_Extract(p)
  \/ IP_ExtractThrows(p)
  \/ IP_Record(p)
  \/ IP_Deps(p)
  \/ InstallDone(p)

NextConcurrent == \E p \in ProcIds : Concurrent(p)

SpecConcurrent == Init /\ [][NextConcurrent]_vars

\* ------------------------------------------------- the direct path as a whole
RECURSIVE DirectInstall(_, _)
RECURSIVE DirectDeps(_, _)
\* installPackage without a cache directory when every awaited call succeeds,
\* as one function of the specifier and of st = [lock, set, fs]: the lock
\* check, the metadata and the version, the two mkdirSync, the extraction of
\* the download stream, the lock entry and the session mark, then the loop
\* over the dependencies of the package.json.
DirectInstall(spec, st) ==
  LET pkg == ParseSpec(spec).pkg
      range == ParseSpec(spec).range
      fs1 == WithNodeModules(st.fs)
  IN IF LockHas(st.lock, pkg) THEN [st EXCEPT !.set = @ \cup {pkg}]
     ELSE IF pkg \notin DOMAIN Registry THEN st
     ELSE IF ResolveVersion(Registry[pkg], range) = Undef THEN st
     ELSE IF ~(existsSync(fs1, pkg) \/ CanMkdir(fs1, pkg)) THEN [st EXCEPT !.fs = fs1]
     ELSE LET version == ResolveVersion(Registry[pkg], range)
              fs2 == Extracted(WithPkgPath(fs1, pkg), pkg, version)
          IN DirectDeps(ReadDeps(fs2, pkg),
                        [lock |-> LockSet(st.lock, pkg, version),
                         set |-> st.set \cup {pkg},
                         fs |-> fs2])

\* for (const dep in deps) if (!installedSet.has(dep)) await installPackage(...)
DirectDeps(deps, st) ==
  IF deps = <<>> THEN st
  ELSE DirectDeps(Tail(deps),
                  IF Head(deps).name \in st.set THEN st
                  ELSE DirectInstall(MakeSpec(Head(deps).name, Head(deps).range), st))

\* -------------------------------------------------------------- properties
Log(p) == proc[p].log

\* The lines of the current session: those after the last session mark of
\* update and upgrade, all of them otherwise.
SessionLog(p) ==
  LET marks == {i \in 1..Len(Log(p)) : Log(p)[i].kind = "session"}
      from == IF marks = {} THEN 1
              ELSE CHOOSE i \in marks : \A j \in marks : j <= i
  IN SubSeq(Log(p), from, Len(Log(p)))

Count(log, kind, n) ==
  Cardinality({i \in 1..Len(log) : log[i].kind = kind /\ log[i].pkg = n})

Has(log, kind, n) == \E i \in 1..Len(log) : log[i].kind = kind /\ log[i].pkg = n

FailKinds == {"notfound", "noversion", "dlfail", "failed", "cmdfailed"}

\* No step of the process failed so far.
NoFailure(p) == \A i \in 1..Len(Log(p)) : Log(p)[i].kind \notin FailKinds

\* The name a command was given.
RootName(p) ==
  IF proc[p].op = "install" THEN ParseSpec(proc[p].arg).pkg ELSE proc[p].arg

\* The files of version v of package n are in node_modules/n.
IsExtracted(fs, n, v) ==
  existsSync(fs, n) /\ fs[n].manifest = v /\ v \in fs[n].files

\* name and range joined again with '@'
Rejoin(name, range) == IF range = Undef THEN name ELSE name \o At \o range

\* C1: every specifier installPackage has parsed gives back, when its parsed
\* name and range are joined with '@', the specifier itself; so the range R of
\* a scoped specifier @scope/pkg@R is the parsed range.
C1_ParseRejoins ==
  \A p \in ProcIds : \A i \in 1..Len(proc[p].stack) :
    LET f == proc[p].stack[i]
    IN f.phase # "enter" => Rejoin(f.pkg, f.range) = f.spec

\* C2: when install without argument has ended and no step failed, every name
\* of the lock file is extracted in node_modules.
C2_InstallAllExtracts ==
  \A p \in ProcIds :
    (proc[p].pc = "exit" /\ proc[p].op = "installAll" /\ NoFailure(p))
      => \A n \in LockKeys(lockFile.deps) :
           IsExtracted(nodeModules, n, LockGet(lockFile.deps, n))

\* C3: with caching on, when install of a package ends that was installed
\* before (its lock entry and its cache file are in place) and whose directory
\* the user had removed, the directory holds the extracted version again and
\* no archive was downloaded.
C3_CacheRoundTrip ==
  \A p \in ProcIds :
    LET n == RootName(p)
        v == LockGet(proc[p].lockS, n)
    IN (/\ proc[p].pc = "exit" /\ proc[p].op = "install" /\ cacheDir
        /\ NoFailure(p)
        /\ \E i \in 1..Len(userRemoved) : userRemoved[i] = n
        /\ LockHas(proc[p].lockS, n)
        /\ TarballPath(n, v) \in DOMAIN cache)
       => /\ IsExtracted(nodeModules, n, v)
          /\ \A i \in 1..Len(Log(p)) : Log(p)[i].kind # "download"

\* The names whose install was completed in the current session: extracted
\* and recorded in the lock.
Succeeded(p) == {n \in Names : Has(SessionLog(p), "lockwrite", n)}

\* A step of p that begins a call of installPackage for a name of Succeeded(p).
C4_SecondCall(p) ==
  /\ Running(p) /\ Top(p).phase = "enter"
  /\ proc'[p] # proc[p]
  /\ ParseSpec(Top(p).spec).pkg \in Succeeded(p)

\* C4: a call of installPackage for a name whose install the session has
\* completed returns at once: it sends no metadata request, downloads and
\* extracts nothing, and leaves the lock, prisma.lock, node_modules and the
\* cache as they are, whatever the range of the specifier.
C4_SecondCallIsNoOp ==
  [][\A p \in ProcIds :
       C4_SecondCall(p) =>
         /\ proc'[p].stack = Tail(proc[p].stack)
         /\ \A i \in (Len(proc[p].log) + 1)..Len(proc'[p].log) :
              proc'[p].log[i].kind \in {"call", "skip"}
         /\ proc'[p].lock = proc[p].lock
         /\ lockFile' = lockFile
         /\ nodeModules' = nodeModules
         /\ cache' = cache]_vars

\* A second call was made for a name installed in this session, and returned.
C4_Witness ==
  \E p \in ProcIds : \E i \in 1..Len(Log(p)) :
    /\ Log(p)[i].kind = "again"
    /\ \E j \in 1..(i-1) : Log(p)[j].kind = "lockwrite" /\ Log(p)[j].pkg = Log(p)[i].pkg
    /\ i + 2 <= Len(Log(p))
    /\ Log(p)[i+2].kind = "skip"
    /\ proc[p].stack = <<>>

RECURSIVE Reach(_, _, _, _)
\* The names the walk from the names todo has to install: those reached
\* through the dependencies of the locked versions, not passing through a name
\* that had a lock entry when the session began.
Reach(todo, seen, lock, lockS) ==
  IF todo = {} THEN seen
  ELSE LET n == CHOOSE x \in todo : TRUE
           next == IF LockHas(lock, n) /\ n \in DOMAIN Registry
                     THEN {DepsOf(n, LockGet(lock, n))[i].name :
                             i \in 1..Len(DepsOf(n, LockGet(lock, n)))}
                     ELSE {}
       IN Reach((todo \cup {d \in next : ~LockHas(lockS, d)}) \ (seen \cup {n}),
                seen \cup {n}, lock, lockS)

\* The packages of the graph of the session's root that had no lock entry
\* when the session began.
Graph(p) ==
  IF LockHas(proc[p].lockS, RootName(p)) THEN {}
  ELSE Reach({RootName(p)}, {}, proc[p].lock, proc[p].lockS)

\* No package is extracted twice in a session.
C5_AtMostOnce ==
  \A p \in ProcIds : \A n \in Names : Count(SessionLog(p), "extract", n) <= 1

\* When the install or update of a root has ended and no step failed, every
\* package of its graph was extracted exactly once, and is installed.
C5_ExactlyOnce ==
  \A p \in ProcIds :
    (proc[p].pc = "exit" /\ proc[p].op \in {"install", "update"} /\ NoFailure(p))
      => \A n \in Graph(p) :
           /\ Count(SessionLog(p), "extract", n) = 1
           /\ LockHas(proc[p].lock, n)
           /\ IsExtracted(nodeModules, n, LockGet(proc[p].lock, n))

\* What is left to do of a call: the steps to the loop over the dependencies,
\* and in the loop the dependencies not yet looked at, each counted as a whole
\* call and one more.
PhaseRank ==
  "enter" :> 7 @@ "meta" :> 6 @@ "download" :> 5 @@ "store" :> 4 @@
  "extract" :> 3 @@ "record" :> 2 @@ "deps" :> 1

FrameWork(f) ==
  PhaseRank[f.phase] + (IF f.phase = "deps" THEN (Len(f.deps) - f.idx + 1) * 8 ELSE 0)

RECURSIVE StackWork(_)
StackWork(st) == IF st = <<>> THEN 0 ELSE FrameWork(Head(st)) + StackWork(Tail(st))

\* The longest dependency list of the registry.
MostDeps ==
  CHOOSE m \in 0..8 :
    /\ \A n \in DOMAIN Registry : \A i \in 1..Len(Registry[n].versions) :
         Len(Registry[n].versions[i].deps) <= m
    /\ \E n \in DOMAIN Registry : \E i \in 1..Len(Registry[n].versions) :
         Len(Registry[n].versions[i].deps) = m

\* The variant of the walk: the work left on the stack, and for every name
\* without a lock entry the work its install can add.
Variant(p) ==
  StackWork(proc[p].stack)
    + Cardinality(Names \ LockKeys(proc[p].lock)) * (8 * MostDeps + 2)

\* Every step of a running installPackage tree lowers the variant.
C5_Decreases(p) ==
  (Running(p) /\ proc'[p] # proc[p]) => Variant(p)' < Variant(p)

\* C5: whatever the dependency graph, cyclic or not, a top-level install comes
\* to its end when every awaited call settles (every step of the tree lowers a
\* variant that is a natural number); no package is extracted twice in a
\* session, and every package of the graph that had no lock entry before is
\* extracted exactly once when no step fails.
C5_TerminatesOnce ==
  /\ [](C5_AtMostOnce /\ C5_ExactlyOnce)
  /\ [][\A p \in ProcIds : C5_Decreases(p)]_vars

\* The install of a from an empty lock has ended without a failure: a and b
\* depend on each other, and a, b and c are each extracted once.
C5_Witness ==
  /\ proc[1].pc = "exit" /\ proc[1].op = "install" /\ NoFailure(1)
  /\ RootName(1) = A /\ proc[1].lockS = <<>>
  /\ {A, B, C} \subseteq Graph(1)
  /\ \E i \in 1..Len(DepsOf(B, LockGet(proc[1].lock, B))) :
       DepsOf(B, LockGet(proc[1].lock, B))[i].name = A
  /\ \E i \in 1..Len(DepsOf(A, LockGet(proc[1].lock, A))) :
       DepsOf(A, LockGet(proc[1].lock, A))[i].name = B

\* C6: uninstall of pkg removes the directory and the lock entry of pkg,
\* leaves no package directory without a lock entry, and leaves the lock entry
\* and the directory of every package that stays in the lock as they were.
C6_UninstallFrame ==
  [][\A p \in ProcIds :
       (proc[p].pc = "idle" /\ proc'[p].op = "uninstall") =>
         LET pkg == proc'[p].arg
         IN /\ ~existsSync(nodeModules', pkg)
            /\ ~LockHas(lockFile'.deps, pkg)
            /\ \A n \in Names :
                 existsSync(nodeModules', n) => LockHas(lockFile'.deps, n)
            /\ \A n \in LockKeys(lockFile'.deps) :
                 /\ LockGet(lockFile'.deps, n) = LockGet(lockFile.deps, n)
                 /\ existsSync(nodeModules, n) =>
                      /\ existsSync(nodeModules', n)
                      /\ nodeModules'[n] = nodeModules[n]]_vars

\* The numeric components of a dotted version.
Nums(v) == [i \in 1..Len(Split(v, ".")) |-> ToNum(Split(v, ".")[i])]

\* Version a is higher than version b: at the first component where they
\* differ a has the greater number.
Higher(a, b) ==
  \E i \in 1..Len(Nums(a)) :
    /\ i <= Len(Nums(b))
    /\ Nums(a)[i] > Nums(b)[i]
    /\ \A j \in 1..(i-1) : Nums(a)[j] = Nums(b)[j]

Published(n) == {Registry[n].versions[i].version : i \in 1..Len(Registry[n].versions)}

\* The versions of n a range admits, as the claim words it.
Admitted(n, range) ==
  IF Head(range) = "^"
    THEN {v \in Published(n) : Nums(v)[1] = ToNum(Tail(range))}
  ELSE IF Head(range) = "~"
    THEN {v \in Published(n) : StartsWith(v, Tail(range) \o Dot)}
  ELSE {v \in Published(n) : v = range}

\* The version the claim names for a range, Undef when there is none.
Expected(n, range) ==
  IF range = Undef \/ range = <<>> \/ range = Latest THEN Registry[n].latest
  ELSE IF Admitted(n, range) = {} THEN Undef
  ELSE CHOOSE v \in Admitted(n, range) :
         \A w \in Admitted(n, range) \ {v} : Higher(v, w)

\* C7: the version a call has resolved is the latest tag for an absent or
\* 'latest' range, else the highest published version the range admits (major
\* N for ^N, prefix N.M. for ~N.M, the version itself for an exact range); a
\* call ends with the version-not-found report exactly when the range admits
\* none, and that call has then done nothing but ask for the metadata: the
\* name has no lock entry and is not in the session.
C7_VersionSelection ==
  \A p \in ProcIds :
    /\ \A i \in 1..Len(proc[p].stack) :
         LET f == proc[p].stack[i]
         IN f.phase \notin {"enter", "meta"} =>
              f.version # Undef /\ f.version = Expected(f.pkg, f.range)
    /\ \A i \in 1..Len(Log(p)) :
         Log(p)[i].kind = "noversion" =>
           /\ Expected(Log(p)[i].pkg, Log(p)[i].ver) = Undef
           /\ i > 2
           /\ Log(p)[i-1].kind = "fetch" /\ Log(p)[i-1].pkg = Log(p)[i].pkg
           /\ Log(p)[i-2].kind = "call" /\ Log(p)[i-2].pkg = Log(p)[i].pkg
           /\ i = Len(Log(p)) =>
                /\ ~LockHas(proc[p].lock, Log(p)[i].pkg)
                /\ ~LockHas(lockFile.deps, Log(p)[i].pkg)
                /\ Log(p)[i].pkg \notin proc[p].installedSet
                /\ ~IsExtracted(nodeModules, Log(p)[i].pkg, Log(p)[i].ver)

\* One session resolved b without range to the latest tag 1.2.0 although
\* 2.0.0 is published, ^1 of a to 1.2.0 although 10.0.0 is published, and
\* ^1 of c to 1.0.0.
C7_Witness ==
  \E p \in ProcIds :
    /\ \E i \in 1..Len(Log(p)) :
         /\ Log(p)[i] = Ev("call", B, Undef, 0)
         /\ i + 2 <= Len(Log(p)) /\ Log(p)[i+2] = Ev("download", B, V120, 0)
    /\ \E i \in 1..Len(Log(p)) :
         /\ Log(p)[i] = Ev("call", A, Caret1, 1)
         /\ i + 2 <= Len(Log(p)) /\ Log(p)[i+2] = Ev("download", A, V120, 1)
    /\ \E i \in 1..Len(Log(p)) :
         /\ Log(p)[i].kind = "call" /\ Log(p)[i].pkg = C /\ Log(p)[i].ver = Caret1
         /\ i + 2 <= Len(Log(p))
         /\ Log(p)[i+2].kind = "download" /\ Log(p)[i+2].ver = V100

\* A call for a with ^3 ended with the version-not-found report.
C7_WitnessNone ==
  \E p \in ProcIds : \E i \in 1..Len(Log(p)) :
    Log(p)[i] = Ev("noversion", A, Caret3, 0)

\* C8: when the install of a package without dependencies has succeeded, the
\* lock is the lock of the session's begin with the one entry pkg -> resolved
\* version added, prisma.lock holds just that, and the files of that version
\* are in node_modules/pkg.
C8_LockConsistency ==
  \A p \in ProcIds : \A i \in 1..Len(SessionLog(p)) :
    LET e == SessionLog(p)[i]
    IN (/\ proc[p].pc = "exit" /\ proc[p].op \in {"install", "update"}
        /\ e.kind = "installed"
        /\ DepsOf(e.pkg, e.ver) = <<>>)
       => /\ proc[p].lock = Append(proc[p].lockS, Entry(e.pkg, e.ver))
          /\ lockFile = [exists |-> TRUE, deps |-> proc[p].lock]
          /\ IsExtracted(nodeModules, e.pkg, e.ver)

\* The install of a@~1.0 succeeded with another package already in the lock.
C8_Witness ==
  /\ proc[1].pc = "exit" /\ proc[1].op = "install"
  /\ Has(Log(1), "installed", A)
  /\ LockGet(proc[1].lock, A) = V100
  /\ proc[1].lockS # <<>>

\* A failure report of the top-level call, or of the command itself.
TopFailed(p) ==
  \E i \in 1..Len(Log(p)) : Log(p)[i].kind \in FailKinds /\ Log(p)[i].depth = 0

\* C9: install, update and upgrade exit with 1 when the top-level install
\* failed, and with 0 only when it did not.
C9_ExitCodes ==
  \A p \in ProcIds :
    (proc[p].pc = "exit" /\ proc[p].op \in {"install", "update", "upgrade"})
      => (proc[p].exitCode = 1 <=> TopFailed(p))

\* C10: when update has reported "Updated <pkg> to latest version.", the lock
\* maps pkg to the latest tag of the registry and node_modules/pkg exists.
C10_UpdatedIsLatest ==
  \A p \in ProcIds :
    (proc[p].pc = "exit" /\ proc[p].op = "update" /\ Has(Log(p), "updated", proc[p].arg))
      => /\ proc[p].arg \in DOMAIN Registry
         /\ LockGet(lockFile.deps, proc[p].arg) =
              (IF proc[p].arg \in DOMAIN Registry
                 THEN Registry[proc[p].arg].latest ELSE Undef)
         /\ existsSync(nodeModules, proc[p].arg)

\* The names upgrade has taken from the lock it read at its start: each got a
\* session of its own.
UpgradeNames(p) ==
  {Log(p)[i].pkg : i \in {j \in 1..Len(Log(p)) : Log(p)[j].kind = "session"}}

\* C11: when upgrade has reported "All packages upgraded to latest versions.",
\* every name of the lock it started from is in the lock file with the latest
\* tag of the registry as its version, and its directory exists.
C11_UpgradedAllLatest ==
  \A p \in ProcIds :
    (proc[p].pc = "exit" /\ proc[p].op = "upgrade" /\ Has(Log(p), "upgraded", Undef))
      => \A n \in UpgradeNames(p) :
           /\ n \in DOMAIN Registry
           /\ LockGet(lockFile.deps, n) =
                (IF n \in DOMAIN Registry THEN Registry[n].latest ELSE Undef)
           /\ existsSync(nodeModules, n)

\* C12: in one session the registry metadata of a name is requested at most
\* once, whether the install of the name succeeded or failed.
C12_OneFetchPerName ==
  \A p \in ProcIds : \A n \in Names : Count(SessionLog(p), "fetch", n) <= 1

\* A step of p in which the call for a dependency (a frame above another)
\* fails at the metadata request, the version resolution, the download or the
\* extraction.
C13_DepFails(p) ==
  /\ Running(p) /\ Len(proc[p].stack) >= 2
  /\ Top(p).phase \in {"meta", "download", "store", "extract"}
  /\ Len(proc'[p].log) > Len(proc[p].log)
  /\ proc'[p].log[Len(proc'[p].log)].kind \in FailKinds

\* The failed call returns to the loop of its parent, which goes on where it
\* was; the lock is as before, without an entry for the dependency and with
\* the entry of the parent, whose directory is still extracted.
C13_BranchLocal(p) ==
  C13_DepFails(p) =>
    LET d == Top(p).pkg
        par == proc[p].stack[2]
    IN /\ proc'[p].stack = Tail(proc[p].stack)
       /\ par.phase = "deps"
       /\ proc'[p].lock = proc[p].lock /\ lockFile' = lockFile
       /\ ~LockHas(proc'[p].lock, d) /\ ~LockHas(lockFile'.deps, d)
       /\ LockGet(proc'[p].lock, par.pkg) = par.version
       /\ LockGet(lockFile'.deps, par.pkg) = par.version
       /\ IsExtracted(nodeModules', par.pkg, par.version)

\* When install or update has ended, every dependency of every package the
\* session recorded was processed by a call of installPackage, and one for
\* which no failure was reported is in the lock, with its directory when the
\* session had to install it (it had no lock entry at the session's begin).
C13_SiblingsProcessed ==
  \A p \in ProcIds :
    (proc[p].pc = "exit" /\ proc[p].op \in {"install", "update"}) =>
      \A i \in 1..Len(SessionLog(p)) :
        LET e == SessionLog(p)[i]
        IN (e.kind = "lockwrite" /\ LockGet(proc[p].lock, e.pkg) = e.ver) =>
             \A k \in 1..Len(DepsOf(e.pkg, e.ver)) :
               LET d == DepsOf(e.pkg, e.ver)[k].name
               IN /\ Has(SessionLog(p), "call", d)
                  /\ (\A j \in 1..Len(SessionLog(p)) :
                        SessionLog(p)[j].pkg = d =>
                          SessionLog(p)[j].kind \notin FailKinds)
                     => /\ LockHas(proc[p].lock, d)
                        /\ LockHas(proc[p].lockS, d) \/ existsSync(nodeModules, d)

\* C13: the failure of the install of a dependency ends that branch only: the
\* parent keeps its lock entry and its directory, the dependency gets no lock
\* entry, and the dependencies listed after it are still processed, and
\* installed when their own steps succeed.
C13_FailuresBranchLocal ==
  /\ []C13_SiblingsProcessed
  /\ [][\A p \in ProcIds : C13_BranchLocal(p)]_vars

\* A dependency failed and a dependency listed after it was installed, in an
\* install that came to its end.
C13_Witness ==
  \E p \in ProcIds :
    /\ proc[p].pc = "exit" /\ proc[p].op = "install"
    /\ \E i \in 1..Len(Log(p)) : \E j \in (i+1)..Len(Log(p)) :
         /\ Log(p)[i].kind \in FailKinds /\ Log(p)[i].depth = 1
         /\ Log(p)[j].kind = "lockwrite" /\ Log(p)[j].depth = 1
         /\ existsSync(nodeModules, Log(p)[j].pkg)
    /\ Has(Log(p), "installed", RootName(p))

\* C14: the cache holds no file whose write did not finish: after a failed
\* stream into the cache there is no file for that name and version, so that
\* a later install finds none and downloads the archive again.
C14_NoPartialCacheFile ==
  \A q \in DOMAIN cache : cache[q].complete

\* node_modules at the moment a step writes prisma.lock: uninstall writes
\* after it removed the directory of the package and before it prunes, every
\* other writer changes node_modules before the write only.
FsAtWrite(p) ==
  IF proc[p].pc = "idle" /\ proc'[p].op = "uninstall"
    THEN IF existsSync(nodeModules, proc'[p].arg)
           THEN rmSync(nodeModules, proc'[p].arg) ELSE nodeModules
    ELSE nodeModules'

\* The step of p writes prisma.lock.
WritesLock(p) ==
  /\ proc'[p] # proc[p]
  /\ \/ lockFile' # lockFile
     \/ /\ Len(proc'[p].log) > Len(proc[p].log)
        /\ proc'[p].log[Len(proc'[p].log)].kind = "lockwrite"
     \/ proc[p].pc = "idle" /\ proc'[p].op = "uninstall" /\ lockFile.exists

\* C15: in a project whose lock keys all had their directories extracted and
\* in which only ppm changes node_modules, whenever a command writes
\* prisma.lock every key of the lock written is a package whose version is
\* extracted in node_modules at that moment.
C15_WrittenKeysExtracted ==
  [][\A p \in ProcIds :
       (WritesLock(p) /\ userRemoved = <<>>) =>
         \A n \in LockKeys(lockFile'.deps) :
           IsExtracted(FsAtWrite(p), n, LockGet(lockFile'.deps, n))]_vars

\* A step of p that begins a call of installPackage for a name that has an
\* entry in the lock.
C16_LockedCall(p) ==
  /\ Running(p) /\ Top(p).phase = "enter"
  /\ proc'[p] # proc[p]
  /\ LockHas(proc[p].lock, ParseSpec(Top(p).spec).pkg)

\* C16: a call of installPackage for a name that has a lock entry returns at
\* once whatever the range: no metadata request, no download, no extraction,
\* the name is in the session afterwards and the lock is as it was; and no
\* step of an install command removes or changes an entry the lock has.
C16_LockEntryKept ==
  [][\A p \in ProcIds :
       /\ C16_LockedCall(p) =>
            /\ proc'[p].stack = Tail(proc[p].stack)
            /\ \A i \in (Len(proc[p].log) + 1)..Len(proc'[p].log) :
                 proc'[p].log[i].kind \in {"call", "skip", "already"}
            /\ ParseSpec(Top(p).spec).pkg \in proc'[p].installedSet
            /\ proc'[p].lock = proc[p].lock
            /\ lockFile' = lockFile /\ nodeModules' = nodeModules /\ cache' = cache
       /\ (proc[p].pc = "run" /\ proc[p].op \in {"install", "installAll"}) =>
            /\ \A n \in LockKeys(proc[p].lock) :
                 LockGet(proc'[p].lock, n) = LockGet(proc[p].lock, n)
            /\ \A n \in LockKeys(lockFile.deps) :
                 LockGet(lockFile'.deps, n) = LockGet(lockFile.deps, n)]_vars

\* A call with a range that does not admit the locked version of the name has
\* returned with "Already installed".
C16_Witness ==
  \E p \in ProcIds : \E i \in 1..(Len(Log(p)) - 1) :
    /\ Log(p)[i].kind = "call" /\ Log(p)[i+1].kind = "already"
    /\ Truthy(Log(p)[i].ver) /\ Log(p)[i].ver # Latest
    /\ Expected(Log(p)[i].pkg, Log(p)[i].ver) # Log(p)[i+1].ver
    /\ LockGet(proc[p].lock, Log(p)[i].pkg) = Log(p)[i+1].ver
    /\ proc[p].stack = <<>>

\* Every call below the top of the stack is in its loop over the
\* dependencies, extracted and locked, and the call above it is the call for
\* the dependency the loop has just taken, one level deeper.
C17_PreOrder ==
  \A p \in ProcIds : \A i \in 2..Len(proc[p].stack) :
    LET par == proc[p].stack[i]
        ch == proc[p].stack[i-1]
    IN /\ par.phase = "deps" /\ par.idx >= 2 /\ par.idx <= Len(par.deps) + 1
       /\ ch.spec = MakeSpec(par.deps[par.idx - 1].name, par.deps[par.idx - 1].range)
       /\ ch.depth = par.depth + 1
       /\ Has(SessionLog(p), "lockwrite", par.pkg)
       /\ LockGet(proc[p].lock, par.pkg) = par.version
       /\ IsExtracted(nodeModules, par.pkg, par.version)

\* A step of a running tree changes the top call only: it goes on, returns,
\* or starts the call of one dependency above it; the calls below wait.
C17_DepthFirst(p) ==
  (Running(p) /\ proc'[p] # proc[p]) =>
    LET n == Len(proc[p].stack)
        m == Len(proc'[p].stack)
    IN /\ m >= n - 1 /\ m <= n + 1
       /\ SubSeq(proc'[p].stack, m - n + 2, m) = Tail(proc[p].stack)
       /\ m = n + 1 => /\ Top(p).phase = "deps"
                       /\ proc'[p].stack[2] = [Top(p) EXCEPT !.idx = @ + 1]

\* The version a session has locked for a name is the one resolved for the
\* range of the call that installed it, which is the first call for the name
\* when no step for the name failed; nothing is requested, extracted or
\* locked for the name afterwards, whatever ranges later branches declare.
C17_FirstVisitWins ==
  \A p \in ProcIds : \A j \in 1..Len(SessionLog(p)) :
    LET sl == SessionLog(p)
        n == sl[j].pkg
        calls == {i \in 1..j : sl[i].kind = "call" /\ sl[i].pkg = n}
        last == CHOOSE i \in calls : \A k \in calls : k <= i
    IN sl[j].kind = "lockwrite" =>
         /\ calls # {}
         /\ sl[j].ver = Expected(n, sl[last].ver)
         /\ LockGet(proc[p].lock, n) = sl[j].ver
         /\ (\A i \in 1..j : sl[i].pkg = n => sl[i].kind \notin FailKinds)
              => calls = {last}
         /\ \A i \in (j+1)..Len(sl) :
              sl[i].pkg = n => sl[i].kind \notin {"fetch", "download", "extract", "lockwrite"}

FsAtBegin ==
  IF existsSync(nodeModules, <<"@","s">>)
    THEN [q \in {<<>>, <<"@","s">>} |-> EmptyDir]
    ELSE [q \in {} |-> EmptyDir]

\* The end effect of the install of the specifier of p on an empty lock by
\* the path without cache.
DirectEffect(p) ==
  DirectInstall(proc[p].arg, [lock |-> <<>>, set |-> {}, fs |-> FsAtBegin])

\* The first command of a behaviour was an install that has ended, and no
\* awaited call failed by an error of the network or the disk.
FirstInstallEnded(p) ==
  /\ proc[p].pc = "exit" /\ proc[p].op = "install"
  /\ cmds = 1 /\ fails = 0 /\ proc[p].lockS = <<>>

\* C18: an install that starts from an empty cache ends, with the cache
\* directory configured, in the lock, the session and the node_modules in
\* which the same install ends without a cache directory; both are the
\* effect of the direct path, and prisma.lock holds that lock.  The cache
\* file of every package installed is the only difference.
C18_SameEndEffect ==
  \A p \in ProcIds :
    FirstInstallEnded(p) =>
      /\ proc[p].lock = DirectEffect(p).lock
      /\ proc[p].installedSet = DirectEffect(p).set
      /\ nodeModules = DirectEffect(p).fs
      /\ lockFile.deps = DirectEffect(p).lock
      /\ cacheDir => \A n \in LockKeys(proc[p].lock) :
                       TarballPath(n, LockGet(proc[p].lock, n)) \in DOMAIN cache
      /\ ~cacheDir => DOMAIN cache = {}

\* install b has ended with a cache directory: b, a and c are installed and
\* their archives are in the cache.
C18_Witness ==
  /\ FirstInstallEnded(1) /\ cacheDir
  /\ RootName(1) = B
  /\ LockKeys(proc[1].lock) = {A, B, C}
  /\ Cardinality(DOMAIN cache) = 3
  /\ \A n \in {A, B, C} : IsExtracted(nodeModules, n, LockGet(proc[1].lock, n))

\* The same install has ended without a cache directory.
C18_WitnessDirect ==
  /\ FirstInstallEnded(1) /\ ~cacheDir
  /\ RootName(1) = B
  /\ LockKeys(proc[1].lock) = {A, B, C}
  /\ \A n \in {A, B, C} : IsExtracted(nodeModules, n, LockGet(proc[1].lock, n))

\* The names a process has written into prisma.lock.
Wrote(p) == {n \in Names : Has(Log(p), "lockwrite", n)}

\* Both processes have run an install to its end, for different packages.
BothEnded ==
  /\ \A p \in ProcIds : proc[p].pc = "exit" /\ proc[p].op = "install"
  /\ RootName(1) # RootName(2)

\* q ran after p: the lock q loaded at its start had all that p wrote.
RanAfter(q, p) == Wrote(p) \subseteq LockKeys(proc[q].lockS)

\* C19: when two install commands for different packages have run one after
\* the other, prisma.lock has the entries of everything either of them wrote
\* (while an interleaving of the two loses an entry: the witness).
C19_SequentialKeepsBoth ==
  (BothEnded /\ (RanAfter(1, 2) \/ RanAfter(2, 1)))
    => \A p \in ProcIds : \A n \in Wrote(p) :
         /\ LockHas(lockFile.deps, n)
         /\ \E i \in 1..Len(Log(p)) :
              Log(p)[i].kind = "lockwrite" /\ Log(p)[i].pkg = n
              /\ LockGet(lockFile.deps, n) = Log(p)[i].ver

\* The lost update: both processes installed and extracted their package
\* without a failure, and prisma.lock lacks the entry of one of them.
C19_Witness ==
  /\ BothEnded
  /\ \A p \in ProcIds :
       /\ NoFailure(p) /\ Has(Log(p), "installed", RootName(p))
       /\ IsExtracted(nodeModules, RootName(p), LockGet(proc[p].lock, RootName(p)))
  /\ \E p \in ProcIds : ~LockHas(lockFile.deps, RootName(p))

\* C20: every name of the session set has an entry in the in-memory lock,
\* and it is there because its install succeeded in this session or because
\* the lock had it when the session began: a name whose install failed is not
\* in the session set.
C20_SessionContained ==
  \A p \in ProcIds : \A n \in proc[p].installedSet :
    /\ LockHas(proc[p].lock, n)
    /\ Has(SessionLog(p), "lockwrite", n) \/ LockHas(proc[p].lockS, n)

====
